---- MODULE Spec2Model ----
(***************************************************************************)
(* A model of setuptools/msvc9_support.py: the one-time patch of           *)
(* distutils.msvc9compiler, the enhanced find_vcvarsall and                *)
(* query_vcvarsall, the PlatformInfo helper and the direct resolver        *)
(* _query_vcvarsall.                                                       *)
(*                                                                         *)
(* Python strings are sequences of atoms.  An atom is a TLA+ string that   *)
(* stands for a run of characters the code never looks inside ("amd64",    *)
(* "Lib", "9.0"); every character the code searches for, splits on or      *)
(* replaces ("_", "\", ";") is an atom of its own, so find, replace,       *)
(* split, slicing and os.path.join work on positions as they do in Python. *)
(* A compiler version is the float times ten (9.0 is 90).                  *)
(***************************************************************************)
EXTENDS Integers, Sequences, FiniteSets, TLC

VARIABLES
    current_cpu,    \* PlatformInfo.current_cpu, read once at class creation
    registry,       \* the registry: a set of [key, name, value] entries
    dirs,           \* the directories that exist (os.path.isdir)
    files,          \* the files that exist (os.path.isfile)
    environ,        \* os.environ: a function from variable name to string
    imported,       \* whether "import distutils.msvc9compiler" succeeded
    msvc9compiler,  \* vars(distutils.msvc9compiler): attribute -> function
    unpatched,      \* the module-level dict "unpatched"
    call            \* the last call made, with its arguments and outcome

vars == <<current_cpu, registry, dirs, files, environ, imported,
          msvc9compiler, unpatched, call>>

-----------------------------------------------------------------------------
(* Bounds of the model. *)

\* Longest architecture token, in atoms, given to PlatformInfo.
MaxArchLen == 5

\* Most changes made to the machine (registry entries, directories, files,
\* environment variables) before and between the calls.
MaxSetup == 3

-----------------------------------------------------------------------------
(* Python string operations on sequences of atoms. *)

BSL == "\\"

Range(s) == {s[i] : i \in 1..Len(s)}

\* s[i:] with a 0-based start index.
SliceFrom(s, i) == SubSeq(s, i + 1, Len(s))

\* str.find(ch): the 0-based index of the first occurrence, -1 when absent.
find(s, ch) ==
    IF ch \in Range(s)
    THEN (CHOOSE i \in 1..Len(s) : s[i] = ch /\ \A j \in 1..(i - 1) : s[j] # ch) - 1
    ELSE -1

\* str.replace(old, new) for a single-character old.
RECURSIVE replace(_, _, _)
replace(s, old, new) ==
    IF s = <<>> THEN <<>>
    ELSE (IF Head(s) = old THEN new ELSE <<Head(s)>>) \o replace(Tail(s), old, new)

\* str.split(sep): the pieces between separators; '' splits to [''].
RECURSIVE split(_, _)
split(s, sep) ==
    LET i == find(s, sep)
    IN  IF i = -1 THEN <<s>>
        ELSE <<SubSeq(s, 1, i)>> \o split(SliceFrom(s, i + 1), sep)

\* str.lower() and str.upper(), atom by atom: the atoms that have another
\* case are listed, every other atom is already in the wanted case.
LowerAtom(a) ==
    CASE a = "AMD64" -> "amd64"
      [] a = "IA64" -> "ia64"
      [] a = "X86" -> "x86"
      [] a = "V4" -> "v4"
      [] OTHER -> a

UpperAtom(a) ==
    CASE a = "include" -> "INCLUDE"
      [] a = "lib" -> "LIB"
      [] a = "libpath" -> "LIBPATH"
      [] a = "path" -> "PATH"
      [] OTHER -> a

lower(s) == [i \in 1..Len(s) |-> LowerAtom(s[i])]
upper(s) == [i \in 1..Len(s) |-> UpperAtom(s[i])]

\* '%0.1f' % version, one atom: 90 formats as "9.0".
fmt(version) == <<ToString(version \div 10) \o "." \o ToString(version % 10)>>

\* int(version)
int(version) == version \div 10

\* os.path.join(a, b) of ntpath, for a relative b without a drive.
join(a, b) ==
    IF a = <<>> THEN b
    ELSE IF a[Len(a)] \in {BSL, "/", ":"} THEN a \o b
    ELSE a \o <<BSL>> \o b

\* sep.join(list): what ';'.join(var) yields.
RECURSIVE StrJoin(_, _)
StrJoin(sep, list) ==
    IF list = <<>> THEN <<>>
    ELSE IF Len(list) = 1 THEN list[1]
    ELSE list[1] \o <<sep>> \o StrJoin(sep, Tail(list))

-----------------------------------------------------------------------------
(* The world the module reads: registry, file system, process environment. *)

\* os.path.isdir and os.path.isfile
isdir(path) == path \in dirs
isfile(path) == path \in files

\* distutils.msvc9compiler.Reg.get_value(key, name): the value, or KeyError.
\* HasValue is "get_value does not raise KeyError".
HasValue(key, name) == \E e \in registry : e.key = key /\ e.name = name
reg_value(key, name) == (CHOOSE e \in registry : e.key = key /\ e.name = name).value

\* Outcomes of a call: a returned value or a raised exception.
Return(v) == [kind |-> "return", value |-> v, exc |-> "", message |-> <<>>]
Raise(exc, message) == [kind |-> "raise", value |-> <<>>, exc |-> exc, message |-> message]

DPE == "DistutilsPlatformError"

\* A call a function made, as its log keeps it.
Called(fn, outcome) == [fn |-> fn, outcome |-> outcome]

\* The value of call before any call is made.
NoCall == [op |-> "none"]

-----------------------------------------------------------------------------
(* class PlatformInfo.  The host CPU is the class attribute current_cpu;   *)
(* the operators take it as a parameter so that they are pure.             *)

X86 == <<"x86">>
AMD64 == <<"amd64">>
IA64 == <<"ia64">>

\* The variant of target_cpu that cuts after the last underscore.
target_cpu_rfind(arch) ==
    LET us == {i \in 1..Len(arch) : arch[i] = "_"}
    IN  IF us = {} THEN arch
        ELSE SliceFrom(arch, CHOOSE i \in us : \A j \in us : j <= i)

target_cpu(arch) == SliceFrom(arch, find(arch, "_") + 1)

target_is_x86(arch) == target_cpu(arch) = X86

\* Returns TRUE when the host is NOT x86: the code compares with !=.
current_is_x86(cpu) == cpu # X86

lib_extra(arch) ==
    IF target_cpu(arch) = AMD64 THEN <<BSL, "amd64">>
    ELSE IF target_cpu(arch) = IA64 THEN <<BSL, "ia64">>
    ELSE <<>>

sdk_extra(arch) ==
    IF target_cpu(arch) = AMD64 THEN <<BSL, "x64">>
    ELSE IF target_cpu(arch) = IA64 THEN <<BSL, "ia64">>
    ELSE <<>>

tools_extra(arch, cpu) ==
    LET path == lib_extra(arch)
    IN  IF target_cpu(arch) # cpu
        THEN replace(path, BSL, <<BSL, "x86", "_">>)
        ELSE path

-----------------------------------------------------------------------------
(* find_vcvarsall(version), the replacement installed by the patch.        *)

None == <<"<None>">>

\* VC_BASE % (prefix, version)
VC_BASE(prefix, version) ==
    <<"Software", BSL>> \o prefix
        \o <<"Microsoft", BSL, "DevDiv", BSL, "VCForPython", BSL>> \o fmt(version)

WowPrefix == <<"Wow6432Node", BSL>>

\* The variant of find_vcvarsall that reads the Wow6432Node key whenever the
\* per-user key did not lead to a batch file.
find_vcvarsall_retry(version, original) ==
    LET user == VC_BASE(<<>>, version)
        wow == VC_BASE(WowPrefix, version)
        bat(d) == join(d, <<"vcvarsall.bat">>)
        userOk == HasValue(user, "installdir")
                    /\ reg_value(user, "installdir") # <<>>
                    /\ isfile(bat(reg_value(user, "installdir")))
        wowOk == HasValue(wow, "installdir")
                    /\ reg_value(wow, "installdir") # <<>>
                    /\ isfile(bat(reg_value(wow, "installdir")))
    IN  IF userOk
        THEN [outcome |-> Return(bat(reg_value(user, "installdir"))), calls |-> <<>>]
        ELSE IF wowOk
        THEN [outcome |-> Return(bat(reg_value(wow, "installdir"))), calls |-> <<>>]
        ELSE [outcome |-> original,
              calls |-> <<Called("unpatched.find_vcvarsall", original)>>]

\* original: the outcome unpatched['find_vcvarsall'](version) has if called.
\* The result carries the outcome and the log of the calls made.
find_vcvarsall(version, original) ==
    LET user == VC_BASE(<<>>, version)
        wow == VC_BASE(WowPrefix, version)
        productdir ==
            IF HasValue(user, "installdir") THEN reg_value(user, "installdir")
            ELSE IF HasValue(wow, "installdir") THEN reg_value(wow, "installdir")
            ELSE None
        vcvarsall == join(productdir, <<"vcvarsall.bat">>)
    IN  IF productdir # None /\ productdir # <<>> /\ isfile(vcvarsall)
        THEN [outcome |-> Return(vcvarsall), calls |-> <<>>]
        ELSE [outcome |-> original,
              calls |-> <<Called("unpatched.find_vcvarsall", original)>>]

-----------------------------------------------------------------------------
(* _query_vcvarsall(version, arch), the direct resolver.                   *)

WinDir == environ["windir"]
ProgramFiles == environ["programfiles"]
ProgramFilesX86 ==
    IF "programfiles(x86)" \in DOMAIN environ THEN environ["programfiles(x86)"]
    ELSE ProgramFiles

\* Registry base paths.
node == IF ~current_is_x86(current_cpu) THEN <<BSL, "Wow6432Node">> ELSE <<>>
SxS(n, leaf) ==
    <<"Software">> \o n
        \o <<BSL, "Microsoft", BSL, "VisualStudio", BSL, "SxS", BSL, leaf>>
VsReg == SxS(node, "VS7")
VcReg == SxS(node, "VC7")
VcForPythonRegAt(n, version) ==
    <<"Software">> \o n
        \o <<BSL, "Microsoft", BSL, "DevDiv", BSL, "VCForPython", BSL>> \o fmt(version)
VcForPythonReg(version) == VcForPythonRegAt(node, version)
WindowsSdkRegAt(n) ==
    <<"Software">> \o n
        \o <<BSL, "Microsoft", BSL, "Microsoft SDKs", BSL, "Windows">>
WindowsSdkReg == WindowsSdkRegAt(node)

\* Microsoft Visual Studio directory.
VsInstallDir(version) ==
    IF HasValue(VsReg, fmt(version)[1]) THEN reg_value(VsReg, fmt(version)[1])
    ELSE join(ProgramFilesX86, <<"Microsoft Visual Studio ">> \o fmt(version))

\* Microsoft Visual C++ directory.
VcInstallDir(version) ==
    IF HasValue(VcReg, fmt(version)[1]) THEN reg_value(VcReg, fmt(version)[1])
    ELSE IF HasValue(VcForPythonReg(version), "installdir")
    THEN join(reg_value(VcForPythonReg(version), "installdir"), <<"VC">>)
    ELSE join(ProgramFilesX86,
              <<"Microsoft Visual Studio ">> \o fmt(version) \o <<BSL, "VC">>)

\* The candidate SDK versions of a compiler version.
WindowsSdkVer(version) ==
    IF version = 90 THEN <<"7.0", "6.1", "6.0a">>
    ELSE IF version = 100 THEN <<"7.1", "7.0a">>
    ELSE <<>>

SdkRegLoc(ver) == join(WindowsSdkReg, <<"v" \o ver>>)
SdkDefaultDir(ver) ==
    join(ProgramFiles, <<"Microsoft SDKs", BSL, "Windows", BSL, "v" \o ver>>)

\* The first loop: the registry folder of the first version that has one.
RECURSIVE SdkFromRegistry(_)
SdkFromRegistry(vers) ==
    IF vers = <<>> THEN <<>>
    ELSE IF HasValue(SdkRegLoc(Head(vers)), "installationfolder")
    THEN reg_value(SdkRegLoc(Head(vers)), "installationfolder")
    ELSE SdkFromRegistry(Tail(vers))

\* The second loop: it has no break, every existing default directory
\* overwrites the one found before it.
RECURSIVE SdkFromDefaults(_, _)
SdkFromDefaults(vers, sdk) ==
    IF vers = <<>> THEN sdk
    ELSE SdkFromDefaults(Tail(vers),
                         IF isdir(SdkDefaultDir(Head(vers)))
                         THEN SdkDefaultDir(Head(vers)) ELSE sdk)

\* The WinSDK directory of the alternate installer, when the directory found
\* so far is empty or does not exist (lines 193 to 199).
SdkFromVcForPython(version, sdk) ==
    IF sdk = <<>> \/ ~isdir(sdk)
    THEN IF HasValue(VcForPythonReg(version), "installdir")
         THEN join(reg_value(VcForPythonReg(version), "installdir"), <<"WinSDK">>)
         ELSE sdk
    ELSE sdk

\* The default paths, when the directory found so far is empty or does not
\* exist (lines 200 to 206).
SdkFromProgramFiles(version, sdk) ==
    IF sdk = <<>> \/ ~isdir(sdk) THEN SdkFromDefaults(WindowsSdkVer(version), sdk)
    ELSE sdk

\* The Platform SDK of the compiler, when nothing was found (lines 207-209).
SdkOrPlatformSdk(sdk, vc) == IF sdk = <<>> THEN join(vc, <<"PlatformSDK">>) ELSE sdk

\* Microsoft Windows SDK directory; vc is VcInstallDir.
WindowsSdkDir(version, vc) ==
    SdkOrPlatformSdk(
        SdkFromProgramFiles(version,
            SdkFromVcForPython(version, SdkFromRegistry(WindowsSdkVer(version)))),
        vc)

\* Microsoft .NET Framework directories.
FrameworkDir32 ==
    IF HasValue(VcReg, "frameworkdir32") THEN reg_value(VcReg, "frameworkdir32")
    ELSE join(WinDir, <<"Microsoft.NET", BSL, "Framework">>)
FrameworkDir64 ==
    IF HasValue(VcReg, "frameworkdir64") THEN reg_value(VcReg, "frameworkdir64")
    ELSE join(WinDir, <<"Microsoft.NET", BSL, "Framework64">>)

\* s[:2] of a version string: its first atom is its first two characters.
Prefix2(s) == SubSeq(s, 1, 1)

\* A local variable that no branch has assigned.
Unbound == <<<<"<unbound>">>>>

\* Microsoft .NET Framework versions: no branch assigns FrameworkVer for a
\* version other than 10.0, 9.0 and 8.0.
FrameworkVer(version) ==
    IF version = 100
    THEN LET v4 == IF HasValue(VcReg, "frameworkver32")
                      /\ Prefix2(lower(reg_value(VcReg, "frameworkver32"))) = <<"v4">>
                   THEN reg_value(VcReg, "frameworkver32")
                   ELSE <<"v4", ".0.30319">>
         IN  <<v4, <<"v3", ".5">>>>
    ELSE IF version = 90 THEN <<<<"v3", ".5">>, <<"v2", ".0.50727">>>>
    ELSE IF version = 80 THEN <<<<"v3", ".0">>, <<"v2", ".0.50727">>>>
    ELSE Unbound

\* [f(x) for x in list]
JoinEach(root, list) == [i \in 1..Len(list) |-> join(root, list[i])]

\* The lists of candidate directories.  vs, vc and sdk are the locals
\* VsInstallDir, VcInstallDir and WindowsSdkDir; lib, sdkx and tools are
\* pi.lib_extra, pi.sdk_extra and pi.tools_extra.
VSTools(vs) ==
    <<join(vs, <<"Common7", BSL, "IDE">>), join(vs, <<"Common7", BSL, "Tools">>)>>

VCIncludes(vc) == <<join(vc, <<"Include">>)>>

VCLibraries(vc, lib) ==
    <<join(vc, <<"Lib">> \o lib), join(vc, <<"ATLMFC", BSL, "LIB">> \o lib)>>

VCTools(vc, tools) ==
    <<join(vc, <<"VCPackages">>), join(vc, <<"Bin">> \o tools)>>
    \o (IF tools # <<>> THEN <<join(vc, <<"Bin">>)>> ELSE <<>>)

OSLibraries(sdk, sdkx) == <<join(sdk, <<"Lib">> \o sdkx)>>

OSIncludes(sdk) == <<join(sdk, <<"Include">>), join(sdk, <<"Include", BSL, "gl">>)>>

SdkTools(sdk, sdkx, version, arch) ==
    <<join(sdk, <<"Bin">>)>>
    \o (IF ~target_is_x86(arch) THEN <<join(sdk, <<"Bin">> \o sdkx)>> ELSE <<>>)
    \o (IF version = 100
        THEN <<join(sdk, <<"Bin", BSL, "NETFX 4.0 Tools">> \o sdkx)>> ELSE <<>>)

SdkSetup(sdk) == <<join(sdk, <<"Setup">>)>>

\* fver is the local FrameworkVer.
FxTools(fver, arch) ==
    JoinEach(FrameworkDir32, fver)
    \o (IF ~target_is_x86(arch) /\ ~current_is_x86(current_cpu)
        THEN JoinEach(FrameworkDir64, fver) ELSE <<>>)

VsTDb(vs) == <<join(vs, <<"VSTSDB", BSL, "Deploy">>)>>

EnvKeys == {"include", "lib", "libpath", "path"}

\* The dict env as lines 294 to 298 build it, each list of lists flattened.
EnvLists(version, arch, vs, vc, sdk, fx) ==
    [include |-> VCIncludes(vc) \o OSIncludes(sdk),
     lib |-> VCLibraries(vc, lib_extra(arch)) \o OSLibraries(sdk, sdk_extra(arch)) \o fx,
     libpath |-> VCLibraries(vc, lib_extra(arch)) \o fx,
     path |-> VCTools(vc, tools_extra(arch, current_cpu)) \o VSTools(vs) \o VsTDb(vs)
                \o SdkTools(sdk, sdk_extra(arch), version, arch) \o SdkSetup(sdk)
                \o fx]

\* checkpath over a list: append each existing path not already present.
RECURSIVE checkpaths(_, _)
checkpaths(paths, varlist) ==
    IF paths = <<>> THEN varlist
    ELSE checkpaths(Tail(paths),
                    IF isdir(Head(paths)) /\ Head(paths) \notin Range(varlist)
                    THEN Append(varlist, Head(paths)) ELSE varlist)

\* The paths of os.environ[key] added to var; nothing when the key is absent.
AddEnviron(key, var) ==
    IF key \in DOMAIN environ THEN checkpaths(split(environ[key], ";"), var)
    ELSE var

\* var at line 320: the valid candidates, then those of os.environ[key].
ValidPaths(key, candidates) == AddEnviron(key, checkpaths(candidates, <<>>))

\* ';'.os.path.join(var): the attribute os of the string ';' does not exist,
\* so the expression raises AttributeError before any join takes place.
SemicolonOsPathJoin(var) ==
    Raise("AttributeError", <<"'str' object has no attribute 'os'">>)

\* Lines 320 to 324 for one key; the result holds the outcome of the step
\* and, when it did not raise, the dict after the assignment.
FormatKey(key, env, var, joined) ==
    IF var # <<>>
    THEN IF joined.kind = "return"
         THEN [raised |-> FALSE, env |-> [env EXCEPT ![key] = joined.value],
               outcome |-> joined]
         ELSE [raised |-> TRUE, env |-> env, outcome |-> joined]
    ELSE [raised |-> TRUE, env |-> env,
          outcome |-> Raise(DPE, upper(<<key>>) \o <<" environment variable is empty">>)]

FormatStep(key, env, var) == FormatKey(key, env, var, SemicolonOsPathJoin(var))

\* The final loop over env.keys(), in the order the dict yields them.
RECURSIVE FormatEnv(_, _)
FormatEnv(keys, env) ==
    IF keys = <<>> THEN Return(env)
    ELSE LET step == FormatStep(Head(keys), env, ValidPaths(Head(keys), env[Head(keys)]))
         IN  IF step.raised THEN step.outcome ELSE FormatEnv(Tail(keys), step.env)

\* Lines 285 to 325: fver is the local FrameworkVer, if any branch bound it.
ResolveFrom285(version, arch, order, vs, vc, sdk, fver) ==
    IF fver = Unbound
    THEN Raise("UnboundLocalError",
               <<"local variable 'FrameworkVer' referenced before assignment">>)
    ELSE FormatEnv(order, EnvLists(version, arch, vs, vc, sdk, FxTools(fver, arch)))

\* Lines 173 to 325: vs and vc are the locals VsInstallDir and VcInstallDir.
ResolveFrom173(version, arch, order, vs, vc) ==
    IF ~isdir(vc)
    THEN Raise(DPE, <<"vcvarsall.bat", " and Visual C++ directory not found">>)
    ELSE ResolveFrom285(version, arch, order, vs, vc, WindowsSdkDir(version, vc),
                        FrameworkVer(version))

\* The outcome of _query_vcvarsall(version, arch); order is the order of
\* env.keys().
_query_vcvarsall(version, arch, order) ==
    ResolveFrom173(version, arch, order, VsInstallDir(version), VcInstallDir(version))

-----------------------------------------------------------------------------
(* query_vcvarsall(version, arch), the replacement installed by the patch. *)

\* The message of the error raised at line 87, from the last message kept.
FinalMessage(version, message) ==
    IF message # <<>> /\ "vcvarsall.bat" \in Range(message)
    THEN <<"Microsoft Visual C++ ">> \o fmt(version) \o <<" is required (">>
            \o message \o <<").">>
            \o (IF int(version) = 9
                THEN <<" Get it from http://aka.ms/vcpython27">>
                ELSE IF int(version) = 10
                THEN <<" Get it with \"Microsoft Windows SDK for Windows 7\": ",
                       "www.microsoft.com/download/details.aspx?id=8279">>
                ELSE <<>>)
    ELSE message

\* Lines 66 to 87: the direct resolver has been called and ended with direct.
AfterDirect(version, first, direct) ==
    IF direct.kind = "return" \/ direct.exc # DPE
    THEN [outcome |-> direct, calls |-> <<first, Called("_query_vcvarsall", direct)>>]
    ELSE [outcome |-> Raise(DPE, FinalMessage(version, direct.message)),
          calls |-> <<first, Called("_query_vcvarsall", direct)>>]

\* The variant of query_vcvarsall that falls back to the direct resolver
\* after any exception of the original.
query_vcvarsall_except_all(version, arch, original, order) ==
    IF original.kind = "return"
    THEN [outcome |-> original,
          calls |-> <<Called("unpatched.query_vcvarsall", original)>>]
    ELSE AfterDirect(version, Called("unpatched.query_vcvarsall", original),
                     _query_vcvarsall(version, arch, order))

\* original: the outcome unpatched['query_vcvarsall'](version, arch) has.
\* The result carries the outcome and the log of the calls made, in order.
query_vcvarsall(version, arch, original, order) ==
    IF original.kind = "return" \/ original.exc \notin {DPE, "ValueError"}
    THEN [outcome |-> original,
          calls |-> <<Called("unpatched.query_vcvarsall", original)>>]
    ELSE AfterDirect(version, Called("unpatched.query_vcvarsall", original),
                     _query_vcvarsall(version, arch, order))

-----------------------------------------------------------------------------
(* patch_for_specialized_compiler()                                        *)

\* vars(distutils.msvc9compiler) as distutils defines it.
OriginalModule ==
    [find_vcvarsall |-> "distutils.msvc9compiler.find_vcvarsall",
     query_vcvarsall |-> "distutils.msvc9compiler.query_vcvarsall",
     Reg |-> "distutils.msvc9compiler.Reg"]

EnhancedFind == "setuptools.msvc9_support.find_vcvarsall"
EnhancedQuery == "setuptools.msvc9_support.query_vcvarsall"

\* 'distutils' in globals(): line 2 binds the name when the module loads,
\* whether or not the import of distutils.msvc9compiler succeeded.
DistutilsInGlobals == TRUE

\* dict.update
Update(d, other) ==
    [k \in DOMAIN d \cup DOMAIN other |-> IF k \in DOMAIN other THEN other[k] ELSE d[k]]

Patched(mod) ==
    [mod EXCEPT !.find_vcvarsall = EnhancedFind, !.query_vcvarsall = EnhancedQuery]

\* The variant of the patch without the "already patched" guard.
patch_no_guard(imp, unp, mod) ==
    IF ~DistutilsInGlobals
    THEN [unpatched |-> unp, module |-> mod, outcome |-> Return(<<"unavailable">>)]
    ELSE IF ~imp
    THEN [unpatched |-> unp, module |-> mod,
          outcome |-> Raise("AttributeError",
                            <<"module 'distutils' has no attribute 'msvc9compiler'">>)]
    ELSE [unpatched |-> Update(unp, mod), module |-> Patched(mod),
          outcome |-> Return(<<"patched">>)]

\* The dict unpatched and the host module's attributes after the call, with
\* the branch the call returned from.
patch_for_specialized_compiler(imp, unp, mod) ==
    IF ~DistutilsInGlobals
    THEN [unpatched |-> unp, module |-> mod, outcome |-> Return(<<"unavailable">>)]
    ELSE IF DOMAIN unp # {}
    THEN [unpatched |-> unp, module |-> mod,
          outcome |-> Return(<<"already patched">>)]
    ELSE IF ~imp
    THEN [unpatched |-> unp, module |-> mod,
          outcome |-> Raise("AttributeError",
                            <<"module 'distutils' has no attribute 'msvc9compiler'">>)]
    ELSE [unpatched |-> Update(unp, mod), module |-> Patched(mod),
          outcome |-> Return(<<"patched">>)]

-----------------------------------------------------------------------------
(* The machines the model runs on: the values the registry, the file       *)
(* system and the environment can hold.                                    *)

Drive(name) == <<"C:", BSL, name>>

\* os.environ as the module finds it; pa is %PROCESSOR_ARCHITECTURE%.
BaseEnviron(pa) ==
    [windir |-> Drive("Windows"),
     programfiles |-> Drive("Program Files"),
     processor_architecture |-> pa]

HostArchitectures == {<<"x86">>, <<"AMD64">>}

\* Where the installers put things when they register a directory.
VcForPythonDir == Drive("VCForPython")
VcForPythonWowDir == Drive("VCForPythonAllUsers")
RegVsDir == Drive("VS")
RegVcDir == join(RegVsDir, <<"VC">>)
RegSdkDir(ver) == join(Drive("SDK"), <<"v" \o ver>>)
EnvDir == Drive("EnvDir")

Entry(key, name, value) == [key |-> key, name |-> name, value |-> value]

\* The registry entries find_vcvarsall reads for version 9.0.
RegUniverseFind ==
    {Entry(VC_BASE(<<>>, 90), "installdir", VcForPythonDir),
     Entry(VC_BASE(<<>>, 90), "installdir", <<>>),
     Entry(VC_BASE(WowPrefix, 90), "installdir", VcForPythonWowDir)}

\* The registry entries the direct resolver reads, under the node it reads.
RegUniverseResolver ==
    {Entry(VcReg, "9.0", RegVcDir),
     Entry(VcForPythonReg(90), "installdir", VcForPythonDir),
     Entry(SdkRegLoc("7.0"), "installationfolder", RegSdkDir("7.0")),
     Entry(SdkRegLoc("6.1"), "installationfolder", RegSdkDir("6.1")),
     Entry(VcReg, "frameworkver32", <<"V4", ".0.21006">>)}

CallArchs == {<<"x86">>, <<"amd64">>, <<"x86", "_", "amd64">>}
Versions == {80, 90, 100, 110}

DefaultVsIn(pf, version) == join(pf, <<"Microsoft Visual Studio ">> \o fmt(version))
DefaultVs(version) == DefaultVsIn(Drive("Program Files"), version)
DefaultVc(version) == join(DefaultVs(version), <<"VC">>)
DefaultVs86(version) == DefaultVsIn(Drive("Program Files (x86)"), version)
DefaultVc86(version) == join(DefaultVs86(version), <<"VC">>)
DefaultSdk(ver) ==
    join(Drive("Program Files"), <<"Microsoft SDKs", BSL, "Windows", BSL, "v" \o ver>>)

SdkVersions == {"7.0", "6.1", "6.0a", "7.1", "7.0a"}

\* Every directory a complete installation holds: each root the resolver can
\* arrive at, and under each root every subdirectory it can ask for.
VcRoots ==
    {RegVcDir, join(VcForPythonDir, <<"VC">>), join(VcForPythonWowDir, <<"VC">>)}
        \cup {DefaultVc(v) : v \in Versions} \cup {DefaultVc86(v) : v \in Versions}
Roots ==
    VcRoots
        \cup {join(r, <<"PlatformSDK">>) : r \in VcRoots}
        \cup {RegVsDir} \cup {DefaultVs(v) : v \in Versions}
        \cup {DefaultVs86(v) : v \in Versions}
        \cup {RegSdkDir(ver) : ver \in SdkVersions}
        \cup {DefaultSdk(ver) : ver \in SdkVersions}
        \cup {join(VcForPythonDir, <<"WinSDK">>), join(VcForPythonWowDir, <<"WinSDK">>)}
        \cup {join(Drive("Windows"), <<"Microsoft.NET", BSL, "Framework">>),
              join(Drive("Windows"), <<"Microsoft.NET", BSL, "Framework64">>)}
Extras == {<<>>, <<BSL, "amd64">>, <<BSL, "ia64">>, <<BSL, "x64">>,
           <<BSL, "x86", "_", "amd64">>, <<BSL, "x86", "_", "ia64">>}
Leaves ==
    {<<"Include">>, <<"Include", BSL, "gl">>, <<"VCPackages">>, <<"Setup">>,
     <<"Common7", BSL, "IDE">>, <<"Common7", BSL, "Tools">>,
     <<"VSTSDB", BSL, "Deploy">>,
     <<"v4", ".0.30319">>, <<"V4", ".0.21006">>, <<"v3", ".5">>, <<"v3", ".0">>,
     <<"v2", ".0.50727">>}
        \cup {<<"Lib">> \o e : e \in Extras}
        \cup {<<"ATLMFC", BSL, "LIB">> \o e : e \in Extras}
        \cup {<<"Bin">> \o e : e \in Extras}
        \cup {<<"Bin", BSL, "NETFX 4.0 Tools">> \o e : e \in Extras}
DirUniverse == Roots \cup {join(r, l) : r \in Roots, l \in Leaves} \cup {EnvDir}

\* The directories that are created one at a time.
ProbeDirsFind ==
    {join(VcForPythonDir, <<"VC">>), DefaultVc(90), DefaultVc(110),
     join(DefaultVc(90), <<"Include">>)}
ProbeDirsResolver ==
    {DefaultVc(90), DefaultVc(110), join(DefaultVc(90), <<"Include">>),
     DefaultSdk("7.0"), DefaultSdk("6.0a"), RegSdkDir("7.0"),
     join(VcForPythonDir, <<"WinSDK">>), EnvDir}

FileUniverse ==
    {join(VcForPythonDir, <<"vcvarsall.bat">>),
     join(VcForPythonWowDir, <<"vcvarsall.bat">>)}

\* Variables a process may also hold.
EnvUniverse ==
    {<<"programfiles(x86)", Drive("Program Files (x86)")>>,
     <<"lib", EnvDir \o <<";">> \o EnvDir \o <<";">> \o Drive("Gone")>>}

-----------------------------------------------------------------------------
(* What happens to the machine: installers write the registry and create   *)
(* directories and files, the caller's process sets environment variables. *)

Installed == DirUniverse \subseteq dirs

\* The number of changes made to the machine so far.
SetupSize ==
    Cardinality(registry) + Cardinality(files)
        + Cardinality(DOMAIN environ \ DOMAIN BaseEnviron(<<>>))
        + (IF Installed THEN 1 ELSE Cardinality(dirs))

RegSetValue(universe) ==
    /\ call = NoCall
    /\ SetupSize < MaxSetup
    /\ \E e \in universe :
           /\ ~HasValue(e.key, e.name)
           /\ registry' = registry \cup {e}
    /\ UNCHANGED <<current_cpu, dirs, files, environ, imported, msvc9compiler,
                   unpatched, call>>

Mkdir(universe) ==
    /\ call = NoCall
    /\ SetupSize < MaxSetup
    /\ ~Installed
    /\ \E d \in universe \ dirs : dirs' = dirs \cup {d}
    /\ UNCHANGED <<current_cpu, registry, files, environ, imported,
                   msvc9compiler, unpatched, call>>

InstallAll ==
    /\ call = NoCall
    /\ SetupSize < MaxSetup
    /\ dirs = {}
    /\ dirs' = DirUniverse
    /\ UNCHANGED <<current_cpu, registry, files, environ, imported,
                   msvc9compiler, unpatched, call>>

CreateFile ==
    /\ call = NoCall
    /\ SetupSize < MaxSetup
    /\ \E f \in FileUniverse \ files : files' = files \cup {f}
    /\ UNCHANGED <<current_cpu, registry, dirs, environ, imported,
                   msvc9compiler, unpatched, call>>

Putenv ==
    /\ call = NoCall
    /\ SetupSize < MaxSetup
    /\ \E nv \in EnvUniverse :
           /\ nv[1] \notin DOMAIN environ
           /\ environ' = Update(environ, [n \in {nv[1]} |-> nv[2]])
    /\ UNCHANGED <<current_cpu, registry, dirs, files, imported, msvc9compiler,
                   unpatched, call>>

-----------------------------------------------------------------------------
(* The calls made to the module.  The module is single-threaded: a call   *)
(* runs to its end before anything else happens, call then holds what it   *)
(* did, and the caller moves on (Continue) before the next call or the     *)
(* next change to the machine.                                             *)

Continue ==
    /\ call # NoCall
    /\ call.op # "PlatformInfo.__init__"
    /\ call' = NoCall
    /\ UNCHANGED <<current_cpu, registry, dirs, files, environ, imported,
                   msvc9compiler, unpatched>>

\* The orders in which the dict env yields its keys: the order of insertion
\* and its rotations, so that each variable comes first in one of them.
InsertionOrder == <<"include", "lib", "libpath", "path">>
KeyOrders ==
    {[i \in 1..4 |-> InsertionOrder[((i + r - 1) % 4) + 1]] : r \in 0..3}

\* What the functions of distutils can do when called: distutils decides.
OriginalEnv ==
    [include |-> <<"original include">>, lib |-> <<"original lib">>,
     libpath |-> <<"original libpath">>, path |-> <<"original path">>]
OriginalFindOutcomes ==
    {Return(None), Return(join(DefaultVc(90), <<"vcvarsall.bat">>))}
OriginalQueryOutcomes ==
    {Return(OriginalEnv),
     Raise(DPE, <<"Unable to find ", "vcvarsall.bat">>),
     Raise(DPE, <<"VC ", "11.0", " is not supported by this module">>),
     Raise("ValueError", <<"['include', 'lib']">>),
     Raise("KeyError", <<"key">>)}

PatchCall ==
    LET r == patch_for_specialized_compiler(imported, unpatched, msvc9compiler)
    IN  /\ call = NoCall
        /\ unpatched' = r.unpatched
        /\ msvc9compiler' = r.module
        /\ call' = [op |-> "patch_for_specialized_compiler", outcome |-> r.outcome]
        /\ UNCHANGED <<current_cpu, registry, dirs, files, environ, imported>>

\* The record of a call made through the host module: enhanced tells whether
\* the module held the replacement, original is what the function of
\* distutils does when called, r is what the function called did.
CallRecord(op, enhanced, version, arch, original, r) ==
    [op |-> op, enhanced |-> enhanced, version |-> version, arch |-> arch,
     original |-> original, outcome |-> r.outcome, calls |-> r.calls]

Unmodified(original) == [outcome |-> original, calls |-> <<>>]

\* distutils.msvc9compiler.find_vcvarsall(version): whichever function the
\* host module holds under that name is called.
FindCall ==
    /\ call = NoCall
    /\ imported
    /\ \E version \in Versions, original \in OriginalFindOutcomes :
           call' = CallRecord("find_vcvarsall",
                              msvc9compiler.find_vcvarsall = EnhancedFind,
                              version, <<>>, original,
                              IF msvc9compiler.find_vcvarsall = EnhancedFind
                              THEN find_vcvarsall(version, original)
                              ELSE Unmodified(original))
    /\ UNCHANGED <<current_cpu, registry, dirs, files, environ, imported,
                   msvc9compiler, unpatched>>

\* distutils.msvc9compiler.query_vcvarsall(version, arch)
QueryCall ==
    /\ call = NoCall
    /\ imported
    /\ \E version \in Versions, arch \in CallArchs,
          original \in OriginalQueryOutcomes, order \in KeyOrders :
           call' = CallRecord("query_vcvarsall",
                              msvc9compiler.query_vcvarsall = EnhancedQuery,
                              version, arch, original,
                              IF msvc9compiler.query_vcvarsall = EnhancedQuery
                              THEN query_vcvarsall(version, arch, original, order)
                              ELSE Unmodified(original))
    /\ UNCHANGED <<current_cpu, registry, dirs, files, environ, imported,
                   msvc9compiler, unpatched>>

\* The record of a direct call, with the locals the call had computed when
\* it ended.
DirectRecord(version, arch, vc, outcome) ==
    [op |-> "_query_vcvarsall", version |-> version, arch |-> arch,
     outcome |-> outcome, VcInstallDir |-> vc,
     WindowsSdkDir |-> IF isdir(vc) THEN WindowsSdkDir(version, vc) ELSE Unbound[1]]

\* _query_vcvarsall(version, arch) called on its own.
DirectCall ==
    /\ call = NoCall
    /\ imported
    /\ \E version \in Versions, arch \in CallArchs, order \in KeyOrders :
           call' = DirectRecord(version, arch, VcInstallDir(version),
                                _query_vcvarsall(version, arch, order))
    /\ UNCHANGED <<current_cpu, registry, dirs, files, environ, imported,
                   msvc9compiler, unpatched>>

-----------------------------------------------------------------------------
(* The module in use: it is loaded on a machine, the machine is set up,    *)
(* and the patch and the patched functions are called.                     *)

Init ==
    /\ \E pa \in HostArchitectures :
           /\ environ = BaseEnviron(pa)
           /\ current_cpu = lower(pa)
    /\ registry = {}
    /\ dirs = {}
    /\ files = {}
    /\ imported \in BOOLEAN
    /\ msvc9compiler = IF imported THEN OriginalModule ELSE <<>>
    /\ unpatched = <<>>
    /\ call = NoCall

Next ==
    \/ RegSetValue(RegUniverseFind)
    \/ Mkdir(ProbeDirsFind)
    \/ CreateFile
    \/ PatchCall
    \/ FindCall
    \/ QueryCall
    \/ Continue

Spec == Init /\ [][Next]_vars

(* The direct resolver on its own, on machines set up in more ways.        *)

InitResolver ==
    /\ \E pa \in HostArchitectures :
           /\ environ = BaseEnviron(pa)
           /\ current_cpu = lower(pa)
    /\ registry = {}
    /\ dirs = {}
    /\ files = {}
    /\ imported = TRUE
    /\ msvc9compiler = OriginalModule
    /\ unpatched = <<>>
    /\ call = NoCall

NextResolver ==
    \/ RegSetValue(RegUniverseResolver)
    \/ Mkdir(ProbeDirsResolver)
    \/ InstallAll
    \/ Putenv
    \/ DirectCall
    \/ Continue

SpecResolver == InitResolver /\ [][NextResolver]_vars

-----------------------------------------------------------------------------
(* The specification of PlatformInfo alone: the host CPU is drawn at class *)
(* creation, and every property is read for an architecture token.         *)

ArchAtoms == {"x86", "amd64", "ia64", "_"}
ArchTokens == UNION {[1..n -> ArchAtoms] : n \in 0..MaxArchLen}

\* PlatformInfo(arch): __init__ stores the token.
PlatformInfoInit(arch) == [op |-> "PlatformInfo.__init__", arch |-> arch]

\* Every property and method of the PlatformInfo object is read.
PlatformInfoProperties ==
    /\ call.op = "PlatformInfo.__init__"
    /\ call' = [op |-> "PlatformInfo",
                arch |-> call.arch,
                target_cpu |-> target_cpu(call.arch),
                target_is_x86 |-> target_is_x86(call.arch),
                current_is_x86 |-> current_is_x86(current_cpu),
                lib_extra |-> lib_extra(call.arch),
                sdk_extra |-> sdk_extra(call.arch),
                tools_extra |-> tools_extra(call.arch, current_cpu)]
    /\ UNCHANGED <<current_cpu, registry, dirs, files, environ,
                   imported, msvc9compiler, unpatched>>

InitPlatform ==
    /\ \E pa \in HostArchitectures \cup {<<"IA64">>} :
           /\ environ = BaseEnviron(pa)
           /\ current_cpu = lower(pa)
    /\ registry = {}
    /\ dirs = {}
    /\ files = {}
    /\ imported = TRUE
    /\ msvc9compiler = OriginalModule
    /\ unpatched = <<>>
    /\ \E arch \in ArchTokens : call = PlatformInfoInit(arch)

NextPlatform == PlatformInfoProperties

SpecPlatform == InitPlatform /\ [][NextPlatform]_vars

-----------------------------------------------------------------------------
(* Properties of PlatformInfo. *)

IsPlatformCall == call.op = "PlatformInfo"

\* C9, as amended: target_cpu is the part of the token after its FIRST
\* underscore, and the whole token when it has no underscore.
C9_TargetCpuAfterFirstUnderscore ==
    IsPlatformCall =>
        \/ /\ "_" \notin Range(call.arch)
           /\ call.target_cpu = call.arch
        \/ \E n \in 0..(Len(call.arch) - 1) :
               /\ "_" \notin Range(SubSeq(call.arch, 1, n))
               /\ call.arch = SubSeq(call.arch, 1, n) \o <<"_">> \o call.target_cpu

\* C9 witness: a token with two underscores has been evaluated.
C9_Witness ==
    /\ IsPlatformCall
    /\ call.arch = <<"x86", "_", "amd64", "_", "ia64">>
    /\ call.target_cpu = <<"amd64", "_", "ia64">>

\* C9 as stated: target_cpu is the part of the token after its LAST
\* underscore (the whole token when it has none), so it holds no underscore.
C9_TargetCpuAfterLastUnderscore ==
    IsPlatformCall =>
        /\ "_" \notin Range(call.target_cpu)
        /\ \/ call.arch = call.target_cpu
           \/ \E n \in 0..(Len(call.arch) - 1) :
                  call.arch = SubSeq(call.arch, 1, n) \o <<"_">> \o call.target_cpu

\* The cross-compilation form the claim describes: the host CPU's marker
\* and an underscore inserted after the backslash.
HostMarked(extra, cpu) == replace(extra, BSL, <<BSL>> \o cpu \o <<"_">>)

\* C10 as stated: lib_extra is \amd64, \ia64 or empty by target CPU, and
\* tools_extra is lib_extra when target and host CPU are equal and lib_extra
\* with the host CPU's marker inserted after the backslash when they differ.
C10_ToolsExtraHostMarker ==
    IsPlatformCall =>
        /\ call.lib_extra =
               (IF call.target_cpu = AMD64 THEN <<BSL, "amd64">>
                ELSE IF call.target_cpu = IA64 THEN <<BSL, "ia64">>
                ELSE <<>>)
        /\ call.tools_extra =
               (IF call.target_cpu = current_cpu THEN call.lib_extra
                ELSE HostMarked(call.lib_extra, current_cpu))

-----------------------------------------------------------------------------
(* Properties of the patch and of the patched functions, under Spec.       *)

IsEnhancedQuery == call.op = "query_vcvarsall" /\ call.enhanced
IsEnhancedFind == call.op = "find_vcvarsall" /\ call.enhanced

Known(outcome) == outcome.kind = "raise" /\ outcome.exc \in {DPE, "ValueError"}

\* C1: query_vcvarsall calls the recorded original first; when that returns,
\* its result is returned and the direct resolver is not called; the direct
\* resolver is called only second and only after the original raised a
\* DistutilsPlatformError or a ValueError; when the direct resolver returns,
\* its result is the result of query_vcvarsall.
C1_OriginalFirstDirectOnlyAfterKnownError ==
    IsEnhancedQuery =>
        /\ Len(call.calls) >= 1
        /\ call.calls[1] = Called("unpatched.query_vcvarsall", call.original)
        /\ call.original.kind = "return" =>
               /\ call.outcome = call.original
               /\ Len(call.calls) = 1
        /\ \A i \in 1..Len(call.calls) :
               call.calls[i].fn = "_query_vcvarsall" => i = 2 /\ Known(call.original)
        /\ (Len(call.calls) = 2 /\ call.calls[2].outcome.kind = "return") =>
               call.outcome = call.calls[2].outcome

\* C1 witness: the original raised a ValueError and the direct resolver was
\* called after it.
C1_Witness ==
    /\ IsEnhancedQuery
    /\ call.original.exc = "ValueError"
    /\ Len(call.calls) = 2
    /\ call.calls[2].fn = "_query_vcvarsall"

\* The message the claim describes for a failure text: wrapped, with the
\* download hint for versions 9 and 10, when the text names the batch
\* script, and the text itself otherwise.
ClaimedMessage(version, text) ==
    IF "vcvarsall.bat" \in Range(text)
    THEN <<"Microsoft Visual C++ ">> \o fmt(version) \o <<" is required (">>
            \o text \o <<").">>
            \o (CASE version = 90 -> <<" Get it from http://aka.ms/vcpython27">>
                  [] version = 100 ->
                        <<" Get it with \"Microsoft Windows SDK for Windows 7\": ",
                          "www.microsoft.com/download/details.aspx?id=8279">>
                  [] OTHER -> <<>>)
    ELSE text

\* C2 as stated: when the original and the direct resolver both fail,
\* query_vcvarsall raises a DistutilsPlatformError whose message is the last
\* failure text, wrapped and with its hint when it names the batch script,
\* unchanged otherwise.
C2_BothFailRaisesOnePlatformError ==
    (/\ IsEnhancedQuery
     /\ Len(call.calls) = 2
     /\ call.original.kind = "raise"
     /\ call.calls[2].outcome.kind = "raise") =>
        /\ call.outcome.kind = "raise"
        /\ call.outcome.exc = DPE
        /\ call.outcome.message =
               ClaimedMessage(call.version, call.calls[2].outcome.message)

PrePatch(d) ==
    /\ d.find_vcvarsall = "distutils.msvc9compiler.find_vcvarsall"
    /\ d.query_vcvarsall = "distutils.msvc9compiler.query_vcvarsall"

\* C3: once the patch has taken its snapshot, the snapshot holds the
\* pre-patch find_vcvarsall and query_vcvarsall, and no later step (a further
\* call of the patch included) changes the snapshot or the host module.
C3_SnapshotKeptByLaterCalls ==
    /\ [](DOMAIN unpatched # {} => PrePatch(unpatched))
    /\ [][DOMAIN unpatched # {} =>
            unpatched' = unpatched /\ msvc9compiler' = msvc9compiler]_vars

\* C3 witness: the patch has been called again after it took its snapshot.
C3_Witness ==
    /\ call.op = "patch_for_specialized_compiler"
    /\ call.outcome = Return(<<"already patched">>)
    /\ PrePatch(unpatched)
    /\ msvc9compiler.find_vcvarsall = EnhancedFind

\* The registered install directories of the alternate installer.
InstallDirs(prefix, version) ==
    {e.value : e \in {x \in registry :
        /\ x.name = "installdir"
        /\ x.key = <<"Software", BSL>> \o prefix
                     \o <<"Microsoft", BSL, "DevDiv", BSL, "VCForPython", BSL>>
                     \o fmt(version)}}

\* The directory find_vcvarsall is to look in: that of the per-user key,
\* that of the Wow6432Node key only when the per-user key is absent.
LookedIn(version) ==
    IF InstallDirs(<<>>, version) # {} THEN InstallDirs(<<>>, version)
    ELSE InstallDirs(<<"Wow6432Node", BSL>>, version)

BatchFiles(version) ==
    {d \o <<BSL, "vcvarsall.bat">> : d \in LookedIn(version) \ {<<>>}} \cap files

\* C4: find_vcvarsall returns the batch file under the registered directory
\* (per-user key first, Wow6432Node key only when that is absent) without
\* calling the original when the file exists; otherwise it returns exactly
\* what the original returns, called once; it never raises KeyError.
C4_FindVcvarsallRegistryThenOriginal ==
    IsEnhancedFind =>
        /\ BatchFiles(call.version) # {} =>
               /\ call.outcome.kind = "return"
               /\ call.outcome.value \in BatchFiles(call.version)
               /\ call.calls = <<>>
        /\ BatchFiles(call.version) = {} =>
               /\ call.outcome = call.original
               /\ call.calls = <<Called("unpatched.find_vcvarsall", call.original)>>
        /\ ~(call.outcome.kind = "raise" /\ call.outcome.exc = "KeyError")

\* C4 witness: the per-user key is absent and the batch file registered under
\* the Wow6432Node key is returned.
C4_Witness ==
    /\ IsEnhancedFind
    /\ InstallDirs(<<>>, call.version) = {}
    /\ call.outcome = Return(VcForPythonWowDir \o <<BSL, "vcvarsall.bat">>)
    /\ call.calls = <<>>

-----------------------------------------------------------------------------
(* Properties of the direct resolver, under SpecResolver.                  *)

IsDirect == call.op = "_query_vcvarsall"

\* The candidate directories of each variable for the call made.
CallLists ==
    EnvLists(call.version, call.arch, VsInstallDir(call.version), call.VcInstallDir,
             call.WindowsSdkDir, FxTools(FrameworkVer(call.version), call.arch))

NoDuplicates(list) == \A i, j \in 1..Len(list) : list[i] = list[j] => i = j

\* C5 as stated: with the compiler directory in the registry and every
\* referenced directory on disk, the resolver returns a mapping in which each
\* of the four values is the non-empty ';'-joined list of the existing
\* candidate and environment directories, in order and without duplicates.
C5_AllPresentReturnsJoinedMapping ==
    (/\ IsDirect
     /\ HasValue(VcReg, fmt(call.version)[1])
     /\ Installed) =>
        /\ call.outcome.kind = "return"
        /\ \A k \in EnvKeys :
               /\ call.outcome.value[k] # <<>>
               /\ call.outcome.value[k] = StrJoin(";", ValidPaths(k, CallLists[k]))
               /\ NoDuplicates(ValidPaths(k, CallLists[k]))
               /\ Range(ValidPaths(k, CallLists[k])) \subseteq dirs

\* C6 as stated: for a version without SDK-version list and an existing
\* compiler directory, the SDK root is the PlatformSDK directory under the
\* compiler root and the resolver returns or raises DistutilsPlatformError.
C6_UnlistedVersionDoesNotCrash ==
    (/\ IsDirect
     /\ WindowsSdkVer(call.version) = <<>>
     /\ isdir(call.VcInstallDir)) =>
        /\ call.WindowsSdkDir = call.VcInstallDir \o <<BSL, "PlatformSDK">>
        /\ call.outcome.kind = "return" \/ call.outcome.exc = DPE

\* The variables that end up with no existing directory.
EmptyKeys == {k \in EnvKeys : ValidPaths(k, CallLists[k]) = <<>>}

\* C7 as stated: when a variable ends up with no existing directory, the
\* resolver raises a DistutilsPlatformError that names such a variable in
\* upper case.
C7_EmptyVariableRaisesNamedError ==
    (/\ IsDirect
     /\ isdir(call.VcInstallDir)
     /\ FrameworkVer(call.version) # Unbound
     /\ EmptyKeys # {}) =>
        /\ call.outcome.kind = "raise"
        /\ call.outcome.exc = DPE
        /\ \E k \in EmptyKeys : upper(<<k>>)[1] \in Range(call.outcome.message)

Min(S) == CHOOSE i \in S : \A j \in S : i <= j

\* The SDK roots the claim ranks: the registry folder of the first candidate
\* version that has one, the WinSDK directory of the alternate installer,
\* the default path of the first candidate version whose directory exists.
ClaimedRegistrySdk(vers) ==
    LET has == {i \in 1..Len(vers) : HasValue(SdkRegLoc(vers[i]), "installationfolder")}
    IN  IF has = {} THEN <<>>
        ELSE reg_value(SdkRegLoc(vers[Min(has)]), "installationfolder")
ClaimedWinSdk(version) ==
    IF HasValue(VcForPythonReg(version), "installdir")
    THEN reg_value(VcForPythonReg(version), "installdir") \o <<BSL, "WinSDK">>
    ELSE <<>>
ClaimedDefaultSdk(vers) ==
    LET there == {i \in 1..Len(vers) : isdir(SdkDefaultDir(vers[i]))}
    IN  IF there = {} THEN <<>> ELSE SdkDefaultDir(vers[Min(there)])

\* C8 as stated: the SDK root is the registry folder, else the WinSDK
\* directory, else the default path of the FIRST candidate version whose
\* directory exists, and the PlatformSDK directory only when none of these
\* is an existing directory.
C8_SdkRootPriorityFirstDefault ==
    (IsDirect /\ isdir(call.VcInstallDir)) =>
        LET R == ClaimedRegistrySdk(WindowsSdkVer(call.version))
            W == ClaimedWinSdk(call.version)
            D == ClaimedDefaultSdk(WindowsSdkVer(call.version))
        IN  /\ isdir(R) => call.WindowsSdkDir = R
            /\ (~isdir(R) /\ isdir(W)) => call.WindowsSdkDir = W
            /\ (~isdir(R) /\ ~isdir(W) /\ D # <<>>) => call.WindowsSdkDir = D
            /\ call.WindowsSdkDir = call.VcInstallDir \o <<BSL, "PlatformSDK">> =>
                   ~isdir(R) /\ ~isdir(W) /\ D = <<>>

====
